---- MODULE Spec2Model ----
(***************************************************************************)
(* Model of SpiderUtilLib's FileUtils: the reverse line stream             *)
(* (reverse_binary_stream and its helpers, nested in Reverse_File_Reader)  *)
(* the public reader Reverse_File_Reader that consumes it, and the search  *)
(* Text_File_Search_All that pulls lines from the reader or from the       *)
(* file's forward iterator.                                                *)
(*                                                                         *)
(* Bytes are integers 0..255, text is a sequence of code points.  The      *)
(* generator is modelled step by step: every window read, every iteration  *)
(* of read_batch's prepend loop and every yield is one action, sequenced   *)
(* by pc exactly as the code sequences them.                               *)
(***************************************************************************)
EXTENDS Integers, Sequences, FiniteSets, TLC

\* ------------------------------------------------------------------ bounds
\* longest byte source / text file explored
MaxLen == 4
\* largest explicit batch_size explored (0 stands for batch_size=None)
MaxBatch == 5
\* most lines of a searched file
MaxSearchLines == 3
\* largest count argument of a search (0 stands for "all")
MaxCount == 2

\* ------------------------------------------------------- program constants
\* b'\r' and b'\n' of the implicit separator tuple
CR == 13
LF == 10

\* bytes a source is built from: CR, LF, 'a', ' '
ByteAlphabet == {CR, LF, 97, 32}
\* characters a text file is built from: CR, LF, 'a', ' ', U+00E9
TextAlphabet == {CR, LF, 97, 32, 233}
\* lines_separator values a caller of Reverse_File_Reader passes: '\n', '|'
ReaderSeparators == {<<LF>>, <<124>>}
\* line contents a searched file is built from, as bytes: 'a', 'a ', '42 7',
\* '7 ' and one byte that is not UTF-8
SearchLineContents ==
  {<<97>>, <<97, 32>>, <<52, 50, 32, 55>>, <<55, 32>>, <<255>>}
\* search_for values: '', 'a', 'a ', '\d+', '\d+ ', '('
SearchPatterns ==
  {<<>>, <<97>>, <<97, 32>>, <<92, 100, 43>>, <<92, 100, 43, 32>>, <<40>>}

VARIABLES
  caller,                    \* which entry point drives the generator
  byte_stream,               \* the bytes of the source (file.buffer)
  batch_arg,                 \* batch_size argument, 0 for None
  lines_separator,           \* lines_separator argument (bytes), <<>> for None
  keep_lines_separator,      \* keep_lines_separator argument
  batch_size,                \* batch_size after line 209-210
  remaining_bytes_indicator, \* checkpoints not yet consumed
  position,                  \* end position of the window being read
  batch,                     \* result accumulated by read_batch
  segment,                   \* carried segment
  lines,                     \* lines of the current batch still to be yielded
  first_batch,               \* TRUE until the first batch has been split
  pc,                        \* position of the generator in its code
  yielded,                   \* what reverse_binary_stream has yielded so far
  reads,                     \* the windows read so far, <<offset, size>> each
  file_text,                 \* the text of the file given to Reverse_File_Reader
  reader_lines_separator,    \* Reverse_File_Reader's lines_separator (text)
  reader_keep_lines_separator, \* Reverse_File_Reader's keep_lines_separator
  reader_yielded,            \* what Reverse_File_Reader has yielded so far
  search_for,                \* Text_File_Search_All's arguments
  search_using_regex,
  search_from_front_to_back,
  count,
  file_exists,               \* whether open(file) finds the file
  search_pc,                 \* position of Text_File_Search_All in its code
  line,                      \* the loop variable of the search
  forward_rest,              \* lines the forward iterator has not produced yet
  file_open,                 \* whether the handle of the search is open
  result,                    \* the result list of the search
  returned,                  \* what the search returned
  raised,                    \* the exception the search caught, "" for none
  dedup,                     \* the frame of a remove_duplicates_orderly call
  cleanup,                   \* the frame of a text_file_cleanup call and its files
  download,                  \* the frame of a get_remote_file call
  base64                     \* the frame of a base64_encoder/base64_decoder round

vars == <<caller, byte_stream, batch_arg, lines_separator, keep_lines_separator,
          batch_size, remaining_bytes_indicator, position, batch, segment, lines,
          first_batch, pc, yielded, reads, file_text, reader_lines_separator,
          reader_keep_lines_separator, reader_yielded, search_for,
          search_using_regex, search_from_front_to_back, count, file_exists,
          search_pc, line, forward_rest, file_open, result, returned, raised,
          dedup, cleanup, download, base64>>

\* the utilities that are not running: no frame
utilities == <<dedup, cleanup, download, base64>>

NotCalled == [pc |-> "not called"]

NoUtility ==
  /\ dedup = NotCalled
  /\ cleanup = NotCalled
  /\ download = NotCalled
  /\ base64 = NotCalled

\* ------------------------------------------------------------ sequences
Min(S) == CHOOSE x \in S : \A y \in S : x <= y

Reverse(s) == [i \in 1..Len(s) |-> s[Len(s) + 1 - i]]

SeqsUpTo(S, n) == UNION {[1..k -> S] : k \in 0..n}

RECURSIVE Concat(_)
Concat(ss) == IF ss = <<>> THEN <<>> ELSE Head(ss) \o Concat(Tail(ss))

\* bytes.startswith / bytes.endswith with one prefix
startswith(s, p) == Len(p) <= Len(s) /\ SubSeq(s, 1, Len(p)) = p
endswith(s, p) == Len(p) <= Len(s) /\ SubSeq(s, Len(s) - Len(p) + 1, Len(s)) = p

\* number of terminator bytes at the end of e (implicit set, CRLF first)
Terminator(e) ==
  IF endswith(e, <<CR, LF>>) THEN 2
  ELSE IF e # <<>> /\ e[Len(e)] \in {CR, LF} THEN 1 ELSE 0

\* ------------------------------------------------------------ encoding
\* str.encode('utf-8') for code points below U+0800
RECURSIVE Encode(_)
Encode(t) ==
  IF t = <<>> THEN <<>>
  ELSE LET c == Head(t)
       IN (IF c < 128 THEN <<c>> ELSE <<192 + (c \div 64), 128 + (c % 64)>>)
          \o Encode(Tail(t))

\* codecs.decode(bytes, 'utf-8') for one- and two-byte sequences; an invalid
\* sequence decodes to <<-1>> (UnicodeDecodeError)
RECURSIVE Decode(_)
Decode(b) ==
  IF b = <<>> THEN <<>>
  ELSE IF b[1] < 128 THEN <<b[1]>> \o Decode(Tail(b))
  ELSE IF /\ b[1] >= 194 /\ b[1] < 224 /\ Len(b) >= 2
          /\ b[2] >= 128 /\ b[2] < 192
       THEN <<(b[1] - 192) * 64 + (b[2] - 128)>> \o Decode(Tail(Tail(b)))
       ELSE <<-1>>

\* codecs.decode raises UnicodeDecodeError on b
Undecodable(b) == \E i \in 1..Len(Decode(b)) : Decode(b)[i] = -1

\* ---------------------------------------------------------- the helpers
\* variant: the division rounds down
floor_division(left_number, right_number) == left_number \div right_number

\* ceil_division: -(-left_number // right_number)
ceil_division(left_number, right_number) ==
  -((-left_number) \div right_number)

\* bytes.splitlines(keepends): split at CR, LF and CRLF, CRLF taken first
RECURSIVE splitlines(_, _)
splitlines(s, keepends) ==
  IF s = <<>> THEN <<>>
  ELSE LET brk == {j \in 1..Len(s) : s[j] \in {CR, LF}}
       IN IF brk = {} THEN <<s>>
          ELSE LET j == Min(brk)
                   k == IF s[j] = CR /\ j < Len(s) /\ s[j + 1] = LF
                        THEN j + 1 ELSE j
               IN <<SubSeq(s, 1, IF keepends THEN k ELSE j - 1)>>
                  \o splitlines(SubSeq(s, k + 1, Len(s)), keepends)

\* bytes.split(separator): every non-overlapping occurrence, left to right
RECURSIVE bytes_split(_, _)
bytes_split(s, separator) ==
  LET occ == {i \in 1..(Len(s) - Len(separator) + 1) :
                SubSeq(s, i, i + Len(separator) - 1) = separator}
  IN IF occ = {} THEN <<s>>
     ELSE LET i == Min(occ)
          IN <<SubSeq(s, 1, i - 1)>>
             \o bytes_split(SubSeq(s, i + Len(separator), Len(s)), separator)

\* variant: the separators are never put back
split_without_separator(string, separator, keep_separator) ==
  bytes_split(string, separator)

\* split(string, separator, keep_separator)
split(string, separator, keep_separator) ==
  LET parts == bytes_split(string, separator)
  IN IF keep_separator
     THEN LET last_part == parts[Len(parts)]
              kept == [i \in 1..(Len(parts) - 1) |-> parts[i] \o separator]
          IN IF last_part # <<>> THEN kept \o <<last_part>> ELSE kept
     ELSE parts

\* variant: a window is read only where a whole one fits
window_of_whole_only(size, end_position) ==
  IF end_position >= size THEN <<end_position - size, size>>
  ELSE <<0, 0>>

\* read_batch_from_end: the window <<offset, size>> read for end_position
window_of(size, end_position) ==
  IF end_position > size THEN <<end_position - size, size>>
  ELSE <<0, end_position>>

\* byte_stream.seek(offset); byte_stream.read(size)
read_batch_from_end(stream, size, end_position) ==
  LET w == window_of(size, end_position)
  IN SubSeq(stream, w[1] + 1, w[1] + w[2])

\* variant: the carried segment is put in front of the piece
glue_in_front(pieces, carried) ==
  [pieces EXCEPT ![Len(pieces)] = carried \o pieces[Len(pieces)]]

\* lines[-1] += segment
glue(pieces, carried) ==
  [pieces EXCEPT ![Len(pieces)] = pieces[Len(pieces)] \o carried]

\* the separator tuple startswith/endswith are given (line 201, or the argument)
separator_tuple(separator) ==
  IF separator = <<>> THEN {<<CR>>, <<LF>>, <<CR, LF>>} ELSE {separator}

\* variant: only a leading CR makes read_batch prepend the earlier window
starts_with_separator_cr_only(s, separator) ==
  startswith(s, IF separator = <<>> THEN <<CR>> ELSE separator)

\* variant: read_batch never prepends
starts_with_separator_never(s, separator) == FALSE

starts_with_separator(s, separator) ==
  \E p \in separator_tuple(separator) : startswith(s, p)

\* variant: only LF counts as the end of a line
ends_with_separator_lf_only(s, separator) ==
  endswith(s, IF separator = <<>> THEN <<LF>> ELSE separator)

ends_with_separator(s, separator) ==
  \E p \in separator_tuple(separator) : endswith(s, p)

\* lines_splitter: splitlines for the implicit set, split for an explicit one
lines_splitter(s, separator, keep_separator) ==
  IF separator = <<>> THEN splitlines(s, keep_separator)
  ELSE split(s, separator, keep_separator)

\* variant: the default window is one byte
effective_batch_size_one(arg, stream_size) == IF arg = 0 THEN 1 ELSE arg

\* batch_size after "if batch_size is None: batch_size = stream_size or 1"
effective_batch_size(arg, stream_size) ==
  IF arg = 0 THEN (IF stream_size = 0 THEN 1 ELSE stream_size) ELSE arg

\* variant: a checkpoint is produced even for an empty stream
checkpoints_at_least_one(stream_size, size) ==
  LET n == ceil_division(stream_size, size)
  IN [k \in 1..(IF n = 0 THEN 1 ELSE n) |-> stream_size - (k - 1) * size]

\* islice(accumulate(chain([stream_size], repeat(batch_size)), sub), count)
checkpoints(stream_size, size) ==
  [k \in 1..ceil_division(stream_size, size) |-> stream_size - (k - 1) * size]

\* str.isspace: the characters str.rstrip() removes
Whitespace == {9, 10, 11, 12, 13, 28, 29, 30, 31, 32, 133, 160, 5760, 8232,
               8233, 8239, 8287, 12288} \cup (8192..8202)

\* variant: nothing is stripped
rstrip_nothing(t) == t

\* str.rstrip()
RECURSIVE rstrip(_)
rstrip(t) ==
  IF t # <<>> /\ t[Len(t)] \in Whitespace THEN rstrip(SubSeq(t, 1, Len(t) - 1))
  ELSE t

\* what Reverse_File_Reader yields for one line of reverse_file
reader_line(text, separator, keep_separator) ==
  IF keep_separator THEN rstrip(text) \o separator ELSE rstrip(text)

\* ------------------------------------------------------ search helpers
Max(S) == CHOOSE x \in S : \A y \in S : x >= y

\* str.find(sub): offset of the leftmost occurrence, -1 when there is none
str_find(text, sub) ==
  LET occ == {i \in 1..(Len(text) - Len(sub) + 1) :
                SubSeq(text, i, i + Len(sub) - 1) = sub}
  IN IF occ = {} THEN -1 ELSE Min(occ) - 1

\* the lines a file opened in text mode iterates over: universal newlines,
\* every terminator translated to '\n'
text_lines(text) ==
  LET kept == splitlines(text, TRUE)
  IN [i \in 1..Len(kept) |->
        IF Terminator(kept[i]) > 0
        THEN SubSeq(kept[i], 1, Len(kept[i]) - Terminator(kept[i])) \o <<LF>>
        ELSE kept[i]]

\* re.compile for patterns made of literal characters, \d and a postfix +
\* (an item is a character or -1 for \d, repeated or not); "(" , ")" and a
\* + with nothing to repeat are errors.  Other syntax is outside the
\* patterns explored.
RECURSIVE re_compile(_)
re_compile(pattern) ==
  IF pattern = <<>> THEN [ok |-> TRUE, items |-> <<>>]
  ELSE IF pattern[1] \in {40, 41, 43} THEN [ok |-> FALSE, items |-> <<>>]
  ELSE IF pattern[1] = 92 /\ (Len(pattern) < 2 \/ pattern[2] # 100)
       THEN [ok |-> FALSE, items |-> <<>>]
  ELSE LET n == IF pattern[1] = 92 THEN 2 ELSE 1
           atom == IF pattern[1] = 92 THEN -1 ELSE pattern[1]
           plus == Len(pattern) > n /\ pattern[n + 1] = 43
           rest == re_compile(SubSeq(pattern, n + (IF plus THEN 2 ELSE 1),
                                     Len(pattern)))
       IN [ok |-> rest.ok,
           items |-> <<[atom |-> atom, plus |-> plus]>> \o rest.items]

\* one character against one atom
re_atom(atom, c) == IF atom = -1 THEN c \in 48..57 ELSE c = atom

\* the end (index after the last character) of the match of items at pos that
\* the backtracking matcher finds first, 0 when there is none: a repeated item
\* takes as many characters as the rest of the pattern allows
RECURSIVE re_match_end(_, _, _)
re_match_end(items, text, pos) ==
  IF items = <<>> THEN pos
  ELSE LET it == Head(items)
           run == {k \in 1..(Len(text) - pos + 1) :
                     \A j \in pos..(pos + k - 1) : re_atom(it.atom, text[j])}
           ok == {k \in (IF it.plus THEN run ELSE run \cap {1}) :
                    re_match_end(Tail(items), text, pos + k) # 0}
       IN IF ok = {} THEN 0 ELSE re_match_end(Tail(items), text, pos + Max(ok))

\* a search that reports the match starting last in the text
re_search_last(items, text) ==
  LET starts == {s \in 1..(Len(text) + 1) : re_match_end(items, text, s) # 0}
  IN IF starts = {} THEN [found |-> FALSE, group |-> <<>>]
     ELSE [found |-> TRUE,
           group |-> SubSeq(text, Max(starts),
                            re_match_end(items, text, Max(starts)) - 1)]

\* re.search(...).group(): the leftmost match, found |-> FALSE for None
re_search(items, text) ==
  LET starts == {s \in 1..(Len(text) + 1) : re_match_end(items, text, s) # 0}
  IN IF starts = {} THEN [found |-> FALSE, group |-> <<>>]
     ELSE [found |-> TRUE,
           group |-> SubSeq(text, Min(starts),
                            re_match_end(items, text, Min(starts)) - 1)]

\* a file of the given lines, each ended by '\n', the last one only if terminated
search_file(contents, terminated) ==
  LET whole == Concat([i \in 1..Len(contents) |-> contents[i] \o <<LF>>])
  IN IF terminated \/ contents = <<>> THEN whole
     ELSE SubSeq(whole, 1, Len(whole) - 1)

SearchFiles ==
  {search_file(contents, terminated) :
     contents \in SeqsUpTo(SearchLineContents, MaxSearchLines),
     terminated \in BOOLEAN}

\* the files searched through the newer API: one terminated line
NewerSearchFiles == {search_file(<<c>>, TRUE) : c \in SearchLineContents}

\* ------------------------------------------------------------------ Init
NoSearch ==
  /\ search_for = <<>>
  /\ search_using_regex = FALSE
  /\ search_from_front_to_back = FALSE
  /\ count = 0
  /\ file_exists = TRUE
  /\ search_pc = "idle"

InitStream ==
  /\ caller = "reverse_binary_stream"
  /\ byte_stream \in SeqsUpTo(ByteAlphabet, MaxLen)
  /\ batch_arg \in 0..MaxBatch
  /\ lines_separator \in {<<>>, <<LF>>, <<CR, LF>>}
  /\ keep_lines_separator \in BOOLEAN
  /\ file_text = <<>>
  /\ reader_lines_separator = <<>>
  /\ reader_keep_lines_separator = TRUE
  /\ NoSearch

\* reverse_file(file_object): batch_size=None, lines_separator=None, keep=True
InitReader ==
  /\ caller = "Reverse_File_Reader"
  /\ file_text \in SeqsUpTo(TextAlphabet, MaxLen)
  /\ byte_stream = Encode(file_text)
  /\ batch_arg = 0
  /\ lines_separator = <<>>
  /\ keep_lines_separator = TRUE
  /\ reader_lines_separator \in ReaderSeparators
  /\ reader_keep_lines_separator \in BOOLEAN
  /\ NoSearch

\* Text_File_Search_All(file, search_for, encoding='utf-8', ...); a backward
\* search reads through Reverse_File_Reader(file_reader, save_memory=True),
\* that is lines_separator='\n' and keep_lines_separator=True
InitSearch ==
  /\ caller = "Text_File_Search_All"
  /\ file_exists \in BOOLEAN
  /\ byte_stream \in (IF file_exists THEN SearchFiles ELSE {<<>>})
  /\ file_text = <<>>
  /\ batch_arg = 0
  /\ lines_separator = <<>>
  /\ keep_lines_separator = TRUE
  /\ reader_lines_separator = <<LF>>
  /\ reader_keep_lines_separator = TRUE
  /\ search_for \in SearchPatterns
  /\ search_using_regex \in BOOLEAN
  /\ search_from_front_to_back \in BOOLEAN
  /\ count \in 0..MaxCount
  /\ search_pc = "call"

\* the newer lower-case API: reverse_file_reader(file_object) with the
\* defaults lines_separator='\n', keep_lines_separator=True, save_memory=True
InitNewerReader ==
  /\ caller = "reverse_file_reader"
  /\ file_text \in SeqsUpTo(TextAlphabet, MaxLen)
  /\ byte_stream = Encode(file_text)
  /\ batch_arg = 0
  /\ lines_separator = <<>>
  /\ keep_lines_separator = TRUE
  /\ reader_lines_separator = <<LF>>
  /\ reader_keep_lines_separator = TRUE
  /\ NoSearch

\* the newer text_file_search_all(file, search_for, ...), which reads backward
\* through cls.reverse_file_reader(file_reader, save_memory=True)
InitNewerSearch ==
  /\ caller = "text_file_search_all"
  /\ file_exists \in BOOLEAN
  /\ byte_stream \in (IF file_exists THEN NewerSearchFiles ELSE {<<>>})
  /\ file_text = <<>>
  /\ batch_arg = 0
  /\ lines_separator = <<>>
  /\ keep_lines_separator = TRUE
  /\ reader_lines_separator = <<LF>>
  /\ reader_keep_lines_separator = TRUE
  /\ search_for \in SearchPatterns
  /\ search_using_regex \in BOOLEAN
  /\ search_from_front_to_back \in BOOLEAN
  /\ count \in 0..MaxCount
  /\ search_pc = "call"

Init ==
  /\ \/ InitStream
     \/ InitReader
     \/ InitSearch
     \/ InitNewerReader
     \/ InitNewerSearch
  /\ batch_size = 0
  /\ remaining_bytes_indicator = <<>>
  /\ position = 0
  /\ batch = <<>>
  /\ segment = <<>>
  /\ lines = <<>>
  /\ first_batch = TRUE
  /\ pc = "start"
  /\ yielded = <<>>
  /\ reads = <<>>
  /\ reader_yielded = <<>>
  /\ line = <<>>
  /\ forward_rest = <<>>
  /\ file_open = FALSE
  /\ result = <<>>
  /\ returned = "not yet"
  /\ raised = ""
  /\ NoUtility

\* --------------------------------------------------------------- actions
params == <<caller, byte_stream, batch_arg, lines_separator, keep_lines_separator,
            file_text, reader_lines_separator, reader_keep_lines_separator,
            search_for, search_using_regex, search_from_front_to_back, count,
            file_exists, utilities>>

\* the state of the generator and of what it has produced
generator == <<batch_size, remaining_bytes_indicator, position, batch, segment,
               lines, first_batch, pc, yielded, reads, reader_yielded>>

\* the part of the search a step of the generator never touches
search_rest == <<forward_rest, file_open, result, returned, raised>>

\* the call is one of the two searches, old or newer API
Searching == caller \in {"Text_File_Search_All", "text_file_search_all"}

\* the call goes through the newer reverse_file_reader
NewerAPI == caller \in {"reverse_file_reader", "text_file_search_all"}

\* the generator is lazy: it runs only while its consumer asks for a line
GeneratorRuns ==
  Searching => (search_pc = "pull" /\ ~search_from_front_to_back)

\* one yield of reverse_binary_stream, passed on by reverse_file (decode) and
\* Reverse_File_Reader (rstrip, re-terminate) to the consumer; a line that
\* does not decode ends the generators with UnicodeDecodeError
Emit(raw, next_pc) ==
  /\ yielded' = Append(yielded, raw)
  /\ IF caller = "reverse_binary_stream"
     THEN /\ pc' = next_pc
          /\ UNCHANGED <<reader_yielded, line, search_pc>>
     ELSE IF Undecodable(raw)
     THEN /\ pc' = "error"
          /\ UNCHANGED <<reader_yielded, line, search_pc>>
     ELSE LET text == reader_line(Decode(raw), reader_lines_separator,
                                  reader_keep_lines_separator)
          IN /\ pc' = next_pc
             /\ reader_yielded' = Append(reader_yielded, text)
             /\ IF Searching
                THEN line' = text /\ search_pc' = "body"
                ELSE UNCHANGED <<line, search_pc>>

\* lines 208-220: size the stream, build the checkpoints, take the first one
Open ==
  /\ pc = "start"
  /\ ~NewerAPI
  /\ GeneratorRuns
  /\ LET stream_size == Len(byte_stream)
         size == effective_batch_size(batch_arg, stream_size)
         cps == checkpoints(stream_size, size)
     IN /\ batch_size' = size
        /\ IF cps = <<>>
           THEN /\ pc' = "done"
                /\ UNCHANGED <<remaining_bytes_indicator, position>>
           ELSE /\ pc' = "read_batch"
                /\ position' = Head(cps)
                /\ remaining_bytes_indicator' = Tail(cps)
  /\ UNCHANGED <<params, batch, segment, lines, first_batch, yielded, reads,
                 reader_yielded, line, search_pc, search_rest>>

\* newer reverse_file_reader, line 191: f = open(filename, 'w') is the first
\* statement the generator runs; the name filename is bound nowhere, so the
\* first request for a line raises NameError before any file is opened or read
OpenUndefinedName ==
  /\ pc = "start"
  /\ NewerAPI
  /\ GeneratorRuns
  /\ pc' = "error"
  /\ UNCHANGED <<params, batch_size, remaining_bytes_indicator, position, batch,
                 segment, lines, first_batch, yielded, reads, reader_yielded,
                 line, search_pc, search_rest>>

\* lines 223-225: read_batch reads the window that ends at position
ReadBatch ==
  /\ pc = "read_batch"
  /\ GeneratorRuns
  /\ batch' = read_batch_from_end(byte_stream, batch_size, position)
  /\ reads' = Append(reads, window_of(batch_size, position))
  /\ pc' = "prepend"
  /\ UNCHANGED <<params, batch_size, remaining_bytes_indicator, position,
                 segment, lines, first_batch, yielded, reader_yielded, line,
                 search_pc, search_rest>>

\* lines 226-234: one iteration of the prepend loop
Prepend ==
  /\ pc = "prepend"
  /\ GeneratorRuns
  /\ starts_with_separator(batch, lines_separator)
  /\ remaining_bytes_indicator # <<>>
  /\ LET p == Head(remaining_bytes_indicator)
     IN /\ position' = p
        /\ batch' = read_batch_from_end(byte_stream, batch_size, p) \o batch
        /\ reads' = Append(reads, window_of(batch_size, p))
  /\ remaining_bytes_indicator' = Tail(remaining_bytes_indicator)
  /\ UNCHANGED <<params, batch_size, segment, lines, first_batch, pc, yielded,
                 reader_yielded, line, search_pc, search_rest>>

\* lines 226-235: the loop ends (no separator in front, or StopIteration)
ReadBatchReturn ==
  /\ pc = "prepend"
  /\ GeneratorRuns
  /\ \/ ~starts_with_separator(batch, lines_separator)
     \/ remaining_bytes_indicator = <<>>
  /\ pc' = "split"
  /\ UNCHANGED <<params, batch_size, remaining_bytes_indicator, position, batch,
                 segment, lines, first_batch, yielded, reads, reader_yielded,
                 line, search_pc, search_rest>>

\* lines 237-239: the first batch
SplitFirst ==
  /\ pc = "split"
  /\ GeneratorRuns
  /\ first_batch
  /\ LET pieces == lines_splitter(batch, lines_separator, keep_lines_separator)
     IN IF pieces = <<>>
        THEN \* "segment, *lines = []" raises ValueError
             /\ pc' = "error"
             /\ UNCHANGED <<segment, lines>>
        ELSE /\ segment' = Head(pieces)
             /\ lines' = Reverse(Tail(pieces))
             /\ pc' = "yield"
  /\ first_batch' = FALSE
  /\ UNCHANGED <<params, batch_size, remaining_bytes_indicator, position, batch,
                 yielded, reads, reader_yielded, line, search_pc, search_rest>>

\* lines 241-248: a later batch; the carried segment is yielded when the batch
\* ends with a separator and glued onto the batch's last piece otherwise
SplitNext ==
  /\ pc = "split"
  /\ GeneratorRuns
  /\ ~first_batch
  /\ LET pieces == lines_splitter(batch, lines_separator, keep_lines_separator)
         glued == glue(pieces, segment)
     IN IF pieces = <<>>
        THEN \* "lines[-1]" or "segment, *lines = []" raises
             /\ pc' = "error"
             /\ UNCHANGED <<segment, lines>>
        ELSE IF ends_with_separator(batch, lines_separator)
        THEN /\ segment' = Head(pieces)
             /\ lines' = <<segment>> \o Reverse(Tail(pieces))
             /\ pc' = "yield"
        ELSE /\ segment' = Head(glued)
             /\ lines' = Reverse(Tail(glued))
             /\ pc' = "yield"
  /\ UNCHANGED <<params, batch_size, remaining_bytes_indicator, position, batch,
                 first_batch, yielded, reads, reader_yielded, line, search_pc,
                 search_rest>>

\* lines 239, 244, 248: one yield of the current batch
YieldLine ==
  /\ pc = "yield"
  /\ GeneratorRuns
  /\ lines # <<>>
  /\ Emit(Head(lines), "yield")
  /\ lines' = Tail(lines)
  /\ UNCHANGED <<params, batch_size, remaining_bytes_indicator, position, batch,
                 segment, first_batch, reads, search_rest>>

\* line 240: the for loop takes the next checkpoint
NextBatch ==
  /\ pc = "yield"
  /\ GeneratorRuns
  /\ lines = <<>>
  /\ remaining_bytes_indicator # <<>>
  /\ position' = Head(remaining_bytes_indicator)
  /\ remaining_bytes_indicator' = Tail(remaining_bytes_indicator)
  /\ pc' = "read_batch"
  /\ UNCHANGED <<params, batch_size, batch, segment, lines, first_batch, yielded,
                 reads, reader_yielded, line, search_pc, search_rest>>

\* line 249: the checkpoints are exhausted, the last segment is yielded
YieldSegment ==
  /\ pc = "yield"
  /\ GeneratorRuns
  /\ lines = <<>>
  /\ remaining_bytes_indicator = <<>>
  /\ Emit(segment, "done")
  /\ UNCHANGED <<params, batch_size, remaining_bytes_indicator, position, batch,
                 segment, lines, first_batch, reads, search_rest>>

\* ------------------------------------------------ Text_File_Search_All
\* an exception handler that returns None and leaves the handle as it is
SearchFailLeavesOpen(exception) ==
  /\ raised' = exception
  /\ file_open' = file_open
  /\ returned' = "None"
  /\ search_pc' = "returned"

\* lines 317-319: an exception ends the with block (the handle is closed), is
\* printed, and None is returned
SearchFail(exception) ==
  /\ raised' = exception
  /\ file_open' = FALSE
  /\ returned' = "None"
  /\ search_pc' = "returned"

\* lines 313-316 and the end of the with block
SearchReturn(found) ==
  /\ file_open' = FALSE
  /\ returned' = IF found = <<>> THEN "None" ELSE "list"
  /\ search_pc' = "returned"
  /\ raised' = raised

\* the test for the empty pattern is missing
empty_pattern_never == FALSE

\* line 295: if search_for == ''
empty_pattern == search_for = <<>>

\* lines 295-300: the empty pattern returns None at once; otherwise the file
\* is opened and the line source chosen
SearchCall ==
  /\ search_pc = "call"
  /\ IF empty_pattern
     THEN /\ returned' = "None"
          /\ search_pc' = "returned"
          /\ UNCHANGED <<file_open, raised, forward_rest>>
     ELSE IF ~file_exists
     THEN /\ SearchFail("FileNotFoundError")
          /\ UNCHANGED forward_rest
     ELSE /\ file_open' = TRUE
          /\ search_pc' = "pull"
          /\ forward_rest' =
               IF search_from_front_to_back /\ ~Undecodable(byte_stream)
               THEN text_lines(Decode(byte_stream)) ELSE <<>>
          /\ UNCHANGED <<returned, raised>>
  /\ UNCHANGED <<params, generator, line, result>>

\* line 300, forward: the file's iterator produces the next line; the first
\* read decodes the whole (small) file and raises if it is not valid UTF-8
SearchNextForward ==
  /\ search_pc = "pull"
  /\ search_from_front_to_back
  /\ IF Undecodable(byte_stream)
     THEN /\ SearchFail("UnicodeDecodeError")
          /\ UNCHANGED <<line, forward_rest>>
     ELSE /\ forward_rest # <<>>
          /\ line' = Head(forward_rest)
          /\ forward_rest' = Tail(forward_rest)
          /\ search_pc' = "body"
          /\ UNCHANGED <<file_open, returned, raised>>
  /\ UNCHANGED <<params, generator, result>>

\* line 300: the line source is exhausted; lines 313-316 return
SearchExhausted ==
  /\ search_pc = "pull"
  /\ IF search_from_front_to_back
     THEN ~Undecodable(byte_stream) /\ forward_rest = <<>>
     ELSE pc = "done"
  /\ SearchReturn(result)
  /\ UNCHANGED <<params, generator, line, forward_rest, result>>

\* line 300, backward: the reverse reader raised while producing a line
SearchScanError ==
  /\ search_pc = "pull"
  /\ ~search_from_front_to_back
  /\ pc = "error"
  /\ SearchFail(IF NewerAPI THEN "NameError" ELSE "UnicodeDecodeError")
  /\ UNCHANGED <<params, generator, line, forward_rest, result>>

\* the loop never breaks
limit_reached_never(found) == FALSE

\* line 311: if 0 < count == len(result)
limit_reached(found) == 0 < count /\ count = Len(found)

\* lines 302-312: the loop body for one line, and the break at the count
SearchBody ==
  /\ search_pc = "body"
  /\ LET compiled == re_compile(search_for)
         found == re_search(compiled.items, line)
         new_result ==
           IF ~search_using_regex
           THEN (IF str_find(line, search_for) # -1
                 THEN Append(result, search_for) ELSE result)
           ELSE (IF found.found THEN Append(result, found.group) ELSE result)
     IN IF search_using_regex /\ ~compiled.ok
        THEN /\ SearchFail("re.error")
             /\ UNCHANGED result
        ELSE /\ result' = new_result
             /\ IF limit_reached(new_result)
                THEN SearchReturn(new_result)
                ELSE /\ search_pc' = "pull"
                     /\ UNCHANGED <<file_open, returned, raised>>
  /\ UNCHANGED <<params, generator, line, forward_rest>>

Next ==
  \/ Open
  \/ OpenUndefinedName
  \/ ReadBatch
  \/ Prepend
  \/ ReadBatchReturn
  \/ SplitFirst
  \/ SplitNext
  \/ YieldLine
  \/ NextBatch
  \/ YieldSegment
  \/ SearchCall
  \/ SearchNextForward
  \/ SearchExhausted
  \/ SearchScanError
  \/ SearchBody

Spec == Init /\ [][Next]_vars

\* ------------------------------------------------------ reference notions
\* the checkpoints of the run, as a set of end positions
Checkpoints == {p \in 1..Len(byte_stream) :
                  \E k \in 0..Len(byte_stream) : p = Len(byte_stream) - k * batch_size}

\* a window edge strictly inside the source lies between bytes p and p + 1
InnerEdges == {p \in Checkpoints : p < Len(byte_stream)}

\* an occurrence of the explicit separator has bytes on both sides of edge p
SeparatorAcross(p) ==
  \E i \in 1..p :
    /\ p < i + Len(lines_separator) - 1
    /\ i + Len(lines_separator) - 1 <= Len(byte_stream)
    /\ SubSeq(byte_stream, i, i + Len(lines_separator) - 1) = lines_separator

Done == pc = "done"
Implicit == lines_separator = <<>>

\* e is one line: not empty, CR and LF occur only in its terminator
IsLine(e) ==
  /\ e # <<>>
  /\ \A i \in 1..(Len(e) - Terminator(e)) : e[i] \notin {CR, LF}

\* ls is the forward line sequence of src: the lines concatenate to src, every
\* line but the last is terminated, and no CRLF is cut in two
IsForwardLineSequence(ls, src) ==
  /\ Concat(ls) = src
  /\ \A i \in 1..Len(ls) :
       /\ IsLine(ls[i])
       /\ i < Len(ls) =>
            /\ Terminator(ls[i]) > 0
            /\ ~(ls[i][Len(ls[i])] = CR /\ ls[i + 1][1] = LF)

\* --------------------------------------------------------------- claims

\* C1: order property.  For a non-empty source, the implicit separator set and
\* keep_lines_separator=True, the finished stream has yielded exactly the
\* forward lines of the source (terminators kept, CRLF one terminator) in
\* reversed order, for every window size.
C1_OrderProperty ==
  (Done /\ Implicit /\ keep_lines_separator /\ byte_stream # <<>>)
    => IsForwardLineSequence(Reverse(yielded), byte_stream)

\* C1 witness: a finished run over three lines, one of them ended by CRLF,
\* read in windows shorter than the source.
C1_Witness ==
  /\ Done /\ Implicit /\ keep_lines_separator
  /\ caller = "reverse_binary_stream"
  /\ Len(yielded) = 3
  /\ Len(reads) >= 3
  /\ \E i \in 1..3 : Terminator(yielded[i]) = 2

\* C2: a CR, LF or CRLF line boundary on a window edge (implicit set).  When a
\* window edge falls right after a CR or LF - in particular between the CR and
\* the LF of a CRLF - the finished stream has yielded what a single window over
\* the whole source yields.
C2_BoundaryOnWindowEdge ==
  (Done /\ Implicit /\ \E p \in InnerEdges : byte_stream[p] \in {CR, LF})
    => yielded = Reverse(lines_splitter(byte_stream, lines_separator,
                                        keep_lines_separator))

\* C2 witness: a finished run in which a window edge cut a CRLF in two and
\* the earlier window was prepended.
C2_Witness ==
  /\ Done /\ Implicit
  /\ \E p \in InnerEdges : byte_stream[p] = CR /\ byte_stream[p + 1] = LF
  /\ Len(yielded) >= 2
  /\ \E i \in 1..Len(reads) : reads[i][2] < Len(batch)

\* C3 (as claimed): with an explicit separator of two or more bytes cut in two
\* by a window edge, the occurrence is still a line boundary: no yielded
\* element holds the separator anywhere but as its kept suffix.
C3_ExplicitSeparatorAcrossEdge ==
  (/\ Done
   /\ Len(lines_separator) >= 2
   /\ \E p \in InnerEdges : SeparatorAcross(p))
    => \A n \in 1..Len(yielded) :
         \A i \in 1..(Len(yielded[n]) - Len(lines_separator) + 1) :
           SubSeq(yielded[n], i, i + Len(lines_separator) - 1) = lines_separator
             => /\ keep_lines_separator
                /\ i = Len(yielded[n]) - Len(lines_separator) + 1

\* C4 (as claimed, for non-empty sources): with a one-byte explicit separator
\* and keep_lines_separator=False the finished stream has yielded the pieces of
\* the whole source split on every separator occurrence, reversed.
C4_ExplicitSeparatorOrder ==
  (/\ Done
   /\ Len(lines_separator) = 1
   /\ ~keep_lines_separator
   /\ byte_stream # <<>>)
    => yielded = Reverse(bytes_split(byte_stream, lines_separator))

\* C5: empty file.  For a source of length 0 the generator finishes at once:
\* nothing is yielded by the stream or by Reverse_File_Reader, no window is
\* read and no error is raised, whatever the window size and separator; and a
\* search over an existing empty file never runs its loop body and returns the
\* "no matches" result (None) without having caught an exception.  (The calls
\* are those of the upper-case API, which the claim is about.)
C5_EmptyFile ==
  /\ (byte_stream = <<>> /\ pc # "start" /\ ~NewerAPI)
       => /\ Done
          /\ yielded = <<>>
          /\ reader_yielded = <<>>
          /\ reads = <<>>
  /\ (caller = "Text_File_Search_All" /\ file_exists /\ byte_stream = <<>>)
       => /\ search_pc # "body"
          /\ result = <<>>
          /\ search_pc = "returned"
               => (returned = "None" /\ raised = "" /\ ~file_open)

\* C5 witness: a backward search for a non-empty pattern over an existing empty
\* file has returned, its reverse reader exhausted.
C5_Witness ==
  /\ Done
  /\ byte_stream = <<>>
  /\ caller = "Text_File_Search_All"
  /\ file_exists
  /\ search_for # <<>>
  /\ ~search_from_front_to_back
  /\ search_pc = "returned"

\* C6: single line without trailing separator.  A non-empty source holding no
\* byte of any separator in effect is yielded as exactly one element, equal to
\* the source, for every window size.
C6_SingleLine ==
  (/\ Done
   /\ byte_stream # <<>>
   /\ \A i \in 1..Len(byte_stream) :
        \A sep \in separator_tuple(lines_separator) :
          \A j \in 1..Len(sep) : byte_stream[i] # sep[j])
    => yielded = <<byte_stream>>

\* C6 witness: a line of three bytes or more re-assembled from one-byte windows.
C6_Witness ==
  /\ Done /\ Implicit
  /\ Len(byte_stream) >= 3
  /\ \A i \in 1..Len(byte_stream) : byte_stream[i] \notin {CR, LF}
  /\ batch_size = 1
  /\ Len(reads) = Len(byte_stream)
  /\ yielded = <<byte_stream>>

\* the content of what Reverse_File_Reader yielded: the element without the
\* lines_separator appended to it
ReaderContent(e) ==
  IF reader_keep_lines_separator
  THEN SubSeq(e, 1, Len(e) - Len(reader_lines_separator))
  ELSE e

\* C7 (as claimed): through Reverse_File_Reader with keep_lines_separator=True
\* the finished sequence is the file's lines reversed, each with the content of
\* the file line character for character, trailing blanks included.
C7_ContentsUnchanged ==
  (Done /\ caller = "Reverse_File_Reader" /\ reader_keep_lines_separator)
    => LET file_lines == splitlines(file_text, FALSE)
           n == Len(file_lines)
       IN /\ Len(reader_yielded) = n
          /\ \A i \in 1..n :
               ReaderContent(reader_yielded[i]) = file_lines[n + 1 - i]

\* C8: uniform re-termination.  With keep_lines_separator=True every element
\* Reverse_File_Reader yields is a text without trailing CR or LF followed by
\* the caller's lines_separator; with keep_lines_separator=False no element
\* ends with CR or LF.
C8_UniformTermination ==
  caller # "reverse_binary_stream"
    => \A i \in 1..Len(reader_yielded) :
         LET e == reader_yielded[i]
             body == ReaderContent(e)
         IN /\ reader_keep_lines_separator => endswith(e, reader_lines_separator)
            /\ body = <<>> \/ body[Len(body)] \notin {CR, LF}

\* C8 witness: a file with a CRLF line, a CR or LF line and an unterminated
\* last line, read to the end with a separator that is not a newline.
C8_Witness ==
  /\ Done
  /\ caller = "Reverse_File_Reader"
  /\ reader_keep_lines_separator
  /\ reader_lines_separator = <<124>>
  /\ Len(reader_yielded) = 3
  /\ \E i \in 1..3 : Terminator(yielded[i]) = 2
  /\ \E i \in 1..3 : Terminator(yielded[i]) = 1
  /\ Terminator(yielded[1]) = 0

\* an element of the stream that is an empty line
IsEmptyElement(e) == e = <<>> \/ (keep_lines_separator /\ Terminator(e) = Len(e))

C10_DefaultWindowAsClaimed ==
  (Done /\ batch_arg = 0)
    => /\ batch_size = Len(byte_stream)
       /\ reads = <<<<0, Len(byte_stream)>>>>

\* C10 (amended): every run of Reverse_File_Reader, also under
\* Text_File_Search_All, has no window size; with no
\* window size and a non-empty source the window is the whole source, there is
\* one checkpoint and one read, of bytes [0, L); with an empty source the window
\* is 1 and there is no checkpoint and no read.
C10_DefaultWindow ==
  /\ caller \in {"Reverse_File_Reader", "Text_File_Search_All"} => batch_arg = 0
  /\ (batch_arg = 0 /\ pc # "start" /\ ~NewerAPI)
       => /\ remaining_bytes_indicator = <<>>
          /\ IF byte_stream # <<>>
             THEN /\ batch_size = Len(byte_stream)
                  /\ pc = "read_batch" => (reads = <<>> /\ position = Len(byte_stream))
                  /\ pc # "read_batch" => reads = <<<<0, Len(byte_stream)>>>>
             ELSE /\ batch_size = 1
                  /\ reads = <<>>
                  /\ Done

\* C10 witness: Reverse_File_Reader finished over a file of several lines
\* after a single read.
C10_Witness ==
  /\ Done
  /\ caller = "Reverse_File_Reader"
  /\ Len(byte_stream) >= 3
  /\ Len(reader_yielded) >= 2
  /\ Len(reads) = 1

\* ------------------------------------------------ Text_File_Search_All claims
\* the call is Text_File_Search_All and it has returned
SearchReturned == caller = "Text_File_Search_All" /\ search_pc = "returned"

\* C11: the value returned when the search could not be performed (missing
\* file, decoding error, invalid regular expression) differs from None, the
\* value returned when the pattern is absent from a readable file.
C11_FailureDistinguishable ==
  (SearchReturned /\ raised # "") => returned # "None"

\* the lines of the file as the forward iterator produces them
ForwardLines ==
  IF Undecodable(byte_stream) THEN <<>> ELSE text_lines(Decode(byte_stream))

\* the lines the loop has pulled from its line source so far
Pulled ==
  IF ~search_from_front_to_back THEN reader_yielded
  ELSE IF search_pc = "call" \/ search_for = <<>> \/ ~file_exists THEN <<>>
  ELSE SubSeq(ForwardLines, 1, Len(ForwardLines) - Len(forward_rest))

\* the line l gives a record: it contains the literal pattern, or the regular
\* expression matches somewhere in it
Matches(l) ==
  IF search_using_regex
  THEN re_compile(search_for).ok /\ re_search(re_compile(search_for).items, l).found
  ELSE str_find(l, search_for) # -1

\* the matching lines among ls, in order
RECURSIVE MatchingLines(_)
MatchingLines(ls) ==
  IF ls = <<>> THEN <<>>
  ELSE (IF Matches(Head(ls)) THEN <<Head(ls)>> ELSE <<>>) \o MatchingLines(Tail(ls))

\* C12: for count > 0 the result never has more than count records, and when
\* the count-th record is made the call has returned with the line that gave
\* it as the last line pulled: the pulled lines hold exactly count matches and
\* end with a match.
C12_CountBoundEarlyStop ==
  (caller = "Text_File_Search_All" /\ count > 0)
    => /\ Len(result) <= count
       /\ Len(result) = count
            => /\ search_pc = "returned"
               /\ Pulled # <<>>
               /\ Matches(Pulled[Len(Pulled)])
               /\ Len(MatchingLines(Pulled)) = count

\* C12 witness: a search with count = 2 returned two records after pulling two
\* lines of a three-line file, backward, the reverse stream left unfinished.
C12_Witness ==
  /\ SearchReturned /\ count = 2 /\ Len(result) = 2
  /\ ~search_from_front_to_back
  /\ Len(Pulled) = 2
  /\ Len(ForwardLines) = 3
  /\ pc # "done"

\* lines 334-337: Text_File_Search calls Text_File_Search_All with count=1 and
\* returns result[0] if result else None (None is <<>> here, a record never is)
Text_File_Search == IF returned = "list" THEN result[1] ELSE <<>>

\* a backward literal search with a bound returned without an exception
BackwardBoundedLiteral ==
  /\ SearchReturned /\ raised = ""
  /\ ~search_from_front_to_back /\ ~search_using_regex
  /\ search_for # <<>> /\ count > 0
  /\ ~Undecodable(byte_stream)

\* C13: a backward literal search with count = k > 0 returns one record for
\* each of the k lines of the file closest to its end that contain the
\* pattern (all of them when there are fewer than k), has examined the file
\* from its end no further than the k-th of them, and Text_File_Search
\* (count = 1) returns the first record.
C13_BackwardBoundedLiteral ==
  BackwardBoundedLiteral
    => LET matching == MatchingLines(Reverse(ForwardLines))
           k == Min({count, Len(matching)})
       IN /\ Len(result) = k
          /\ \A i \in 1..k : result[i] = search_for
          /\ Len(MatchingLines(SubSeq(Reverse(ForwardLines), 1, Len(Pulled)))) = k
          /\ (count = 1 /\ k = 1) => Text_File_Search = search_for

\* C14: the newer reverse_file_reader, run over a non-empty text file, ends
\* normally having yielded one element per line of the file, last line first;
\* and the newer text_file_search_all, backward, over a file with a line that
\* contains the pattern, returns a list of matches.
C14_NewerReaderYieldsLines ==
  /\ (caller = "reverse_file_reader" /\ file_text # <<>> /\ pc \in {"done", "error"})
       => /\ pc = "done"
          /\ Len(reader_yielded) = Len(text_lines(file_text))
          /\ \A i \in 1..Len(reader_yielded) :
               rstrip(reader_yielded[i])
                 = rstrip(text_lines(file_text)[Len(reader_yielded) + 1 - i])
  /\ (/\ caller = "text_file_search_all" /\ search_pc = "returned"
      /\ ~search_from_front_to_back /\ search_for # <<>>
      /\ ~Undecodable(byte_stream)
      /\ (search_using_regex => re_compile(search_for).ok)
      /\ \E i \in 1..Len(ForwardLines) : Matches(rstrip(ForwardLines[i])))
       => returned = "list"

\* C15: a call of Text_File_Search_All with the empty pattern never opens the
\* file, reads no window and pulls no line, catches no exception (also when
\* the file does not exist), records nothing, and returns None, for every
\* file, direction, regex flag and count.
C15_EmptyPattern ==
  (caller = "Text_File_Search_All" /\ search_for = <<>>)
    => /\ ~file_open
       /\ pc = "start" /\ reads = <<>> /\ yielded = <<>> /\ Pulled = <<>>
       /\ forward_rest = <<>>
       /\ result = <<>>
       /\ raised = ""
       /\ search_pc \in {"call", "returned"}
       /\ search_pc = "returned" => returned = "None"

\* C15 witness: the empty pattern as a regular expression with count = 2 over
\* a file that does not exist has returned.
C15_Witness ==
  /\ SearchReturned /\ search_for = <<>>
  /\ ~file_exists /\ search_using_regex /\ count = 2
  /\ search_from_front_to_back
  /\ returned = "None"

\* the text t, taken whole, is in the language of the compiled pattern: it is
\* cut into one piece per item, a piece being one character that fits the
\* item's atom, or one or more of them under a +
RECURSIVE InLanguage(_, _)
InLanguage(items, t) ==
  IF items = <<>> THEN t = <<>>
  ELSE \E k \in 1..Len(t) :
         /\ Head(items).plus \/ k = 1
         /\ \A j \in 1..k : re_atom(Head(items).atom, t[j])
         /\ InLanguage(Tail(items), SubSeq(t, k + 1, Len(t)))

\* the substrings of l that start at s and are in the language of the pattern
MatchesAt(items, l, s) ==
  {e \in (s - 1)..Len(l) : InLanguage(items, SubSeq(l, s, e))}

\* p occurs in l as a substring
IsSubstring(p, l) ==
  \E i \in 1..(Len(l) - Len(p) + 1) : SubSeq(l, i, i + Len(p) - 1) = p

\* what one run of the loop body may do to result, for the visited line
RecordForLine ==
  IF search_using_regex
  THEN LET items == re_compile(search_for).items
       IN IF ~re_compile(search_for).ok THEN result' = result
          ELSE IF \A s \in 1..(Len(line) + 1) : MatchesAt(items, line, s) = {}
          THEN result' = result
          ELSE \E s \in 1..(Len(line) + 1) :
                 /\ \A before \in 1..(s - 1) : MatchesAt(items, line, before) = {}
                 /\ \E e \in MatchesAt(items, line, s) :
                      result' = Append(result, SubSeq(line, s, e))
  ELSE IF IsSubstring(search_for, line)
  THEN result' = Append(result, search_for)
  ELSE result' = result

\* C16: every run of the loop body records, in regex mode, a substring of the
\* visited line that the pattern matches and before whose start no match of
\* the pattern starts (nothing when the pattern matches nowhere in the line),
\* and in literal mode the pattern itself if and only if the pattern is a
\* substring of the visited line.
C16_RecordPerMode ==
  [][(caller = "Text_File_Search_All" /\ search_pc = "body") => RecordForLine]_vars

\* C16 witness: the pattern \d+ has been run on the line '42 7' and has
\* recorded '42'.
C16_Witness ==
  /\ caller = "Text_File_Search_All"
  /\ search_using_regex /\ search_for = <<92, 100, 43>>
  /\ rstrip(line) = <<52, 50, 32, 55>>
  /\ search_pc \in {"pull", "returned"}
  /\ result # <<>> /\ result[Len(result)] = <<52, 50>>

\* the record a matching line l gives
Record(l) ==
  IF search_using_regex THEN re_search(re_compile(search_for).items, l).group
  ELSE search_for

\* the records of the matching lines among ls, in the order of ls
Records(ls) == [i \in 1..Len(MatchingLines(ls)) |-> Record(MatchingLines(ls)[i])]

\* the records are those of the lines visited so far, in the order of the visits
VisitOrder ==
  (caller = "Text_File_Search_All" /\ search_pc \in {"pull", "returned"} /\ raised = "")
    => result = Records(Pulled)

\* C17: the records are in the order in which the lines were visited, and in
\* regex mode with count = 0 the i-th record of a finished backward search is
\* the record of the i-th line, counted from the end of the file, that the
\* pattern matches.
C17_MatchOrder ==
  /\ VisitOrder
  /\ (/\ SearchReturned /\ raised = "" /\ ~Undecodable(byte_stream)
      /\ ~search_from_front_to_back /\ search_using_regex
      /\ search_for # <<>> /\ count = 0)
       => \A i \in 1..Len(result) :
            /\ i <= Len(MatchingLines(Reverse(ForwardLines)))
            /\ result[i] = Records(Reverse(ForwardLines))[i]

\* a search with count = 0 returned without an exception
UnboundedSearchDone ==
  /\ SearchReturned /\ raised = "" /\ ~Undecodable(byte_stream)
  /\ search_for # <<>> /\ count = 0

\* C18: with count = 0 a finished search has visited every line of the file
\* and holds exactly one record for each line of the file that contains a
\* match, so the result is as long as the number of matching lines (and None
\* is returned exactly when there is none).
C18_OneRecordPerMatchingLine ==
  UnboundedSearchDone
    => /\ Len(Pulled) = Len(ForwardLines)
       /\ Len(result) = Len(MatchingLines(ForwardLines))
       /\ (returned = "None") = (MatchingLines(ForwardLines) = <<>>)

\* C19: the handle is open only while the loop of Text_File_Search_All runs,
\* and when the call has returned, by whichever path (source exhausted, break
\* at the count with the reverse stream unfinished, exception caught), the
\* handle is closed and the call has returned a value, None or the list, the
\* exception having been caught.
C19_ScopedRelease ==
  caller = "Text_File_Search_All"
    => /\ file_open => search_pc \in {"pull", "body"}
       /\ search_pc = "returned"
            => /\ ~file_open
               /\ returned \in {"None", "list"}
               /\ raised # "" => returned = "None"

\* C19 witness: a backward search recorded a match, then its reverse reader
\* raised on a line that is not UTF-8; the call has returned with the handle
\* closed and the stream unfinished.
C19_Witness ==
  /\ SearchReturned /\ ~search_from_front_to_back
  /\ raised = "UnicodeDecodeError"
  /\ result # <<>>
  /\ pc = "error"
  /\ ~file_open

\* ----------------------------------- Reverse_File_Reader(save_memory=False)
\* the list is left in file order
reversed_file_in_file_order(file_bytes) == text_lines(Decode(file_bytes))

\* lines 273-274: file_object.readlines() over the text-mode handle (universal
\* newlines), then reversed_file.reverse()
reversed_file(file_bytes) == Reverse(text_lines(Decode(file_bytes)))

\* lines 272-279: what Reverse_File_Reader(save_memory=False) yields, and
\* whether readlines() raises UnicodeDecodeError (before anything is yielded)
read_all_lines(file_bytes, separator, keep_separator) ==
  IF Undecodable(file_bytes) THEN [raises |-> TRUE, yields |-> <<>>]
  ELSE [raises |-> FALSE,
        yields |-> [i \in 1..Len(reversed_file(file_bytes)) |->
                      reader_line(reversed_file(file_bytes)[i], separator,
                                  keep_separator)]]

\* Reverse_File_Reader(save_memory=True) has run to its end or to an exception,
\* called by a user or by Text_File_Search_All
ReaderEnded ==
  /\ caller \in {"Reverse_File_Reader", "Text_File_Search_All"}
  /\ pc \in {"done", "error"}

\* what save_memory=False does with the same file and arguments
OtherMode ==
  read_all_lines(byte_stream, reader_lines_separator, reader_keep_lines_separator)

\* the lines of the file, as bytes, that follow its last undecodable line
AfterLastUndecodable ==
  LET byte_lines == splitlines(byte_stream, TRUE)
      bad == {i \in 1..Len(byte_lines) : Undecodable(byte_lines[i])}
  IN IF bad = {} THEN byte_lines
     ELSE SubSeq(byte_lines, Max(bad) + 1, Len(byte_lines))

MaxPulledLen == 3
MaxPulledBatch == 2
\* bytes its sources are built from: CR, LF, 'a'
PulledAlphabet == {CR, LF, 97}

\* the stream alone, driven by a consumer that keeps asking for the next line
InitPulledStream ==
  /\ caller = "reverse_binary_stream"
  /\ byte_stream \in SeqsUpTo(PulledAlphabet, MaxPulledLen)
  /\ batch_arg \in 1..MaxPulledBatch
  /\ lines_separator \in {<<>>, <<LF>>, <<CR, LF>>}
  /\ keep_lines_separator \in BOOLEAN
  /\ file_text = <<>>
  /\ reader_lines_separator = <<>>
  /\ reader_keep_lines_separator = TRUE
  /\ NoSearch
  /\ batch_size = 0
  /\ remaining_bytes_indicator = <<>>
  /\ position = 0
  /\ batch = <<>>
  /\ segment = <<>>
  /\ lines = <<>>
  /\ first_batch = TRUE
  /\ pc = "start"
  /\ yielded = <<>>
  /\ reads = <<>>
  /\ reader_yielded = <<>>
  /\ line = <<>>
  /\ forward_rest = <<>>
  /\ file_open = FALSE
  /\ result = <<>>
  /\ returned = "not yet"
  /\ raised = ""
  /\ NoUtility

PulledStreamNext ==
  \/ Open
  \/ ReadBatch
  \/ Prepend
  \/ ReadBatchReturn
  \/ SplitFirst
  \/ SplitNext
  \/ YieldLine
  \/ NextBatch
  \/ YieldSegment

\* every next() of the consumer runs the generator to its next yield
PulledStreamSpec ==
  InitPulledStream /\ [][PulledStreamNext]_vars /\ WF_vars(PulledStreamNext)

\* the number of windows of size w a source of length l is cut into
WindowCount(l, w) == CHOOSE n \in 0..l : n * w >= l /\ (n = 0 \/ (n - 1) * w < l)

\* C21: a consumer that keeps pulling reaches exhaustion, the generator then
\* having made exactly ceil(L / w) window reads, one for each checkpoint
\* L - k * w in turn, whether the main loop or the prepend loop of read_batch
\* took the checkpoint.
C21_Finiteness ==
  <>(/\ Done
     /\ remaining_bytes_indicator = <<>>
     /\ Len(reads) = WindowCount(Len(byte_stream), batch_size)
     /\ \A k \in 1..Len(reads) :
          reads[k] = window_of(batch_size, Len(byte_stream) - (k - 1) * batch_size))

\* C21 witness: the stream is exhausted after three or more reads, the last
\* call of read_batch having prepended down to the start of the source with
\* its buffer still starting with a separator.
C21_Witness ==
  /\ Done /\ caller = "reverse_binary_stream"
  /\ Len(reads) >= 3
  /\ Len(batch) > batch_size
  /\ starts_with_separator(batch, lines_separator)
  /\ reads[Len(reads)][1] = 0

\* =====================================================================
\* remove_duplicates_orderly(list_with_duplicates, preserve_first_encounter,
\* preserve_original_list), the same code in both APIs.  Lists are objects:
\* heap maps the caller's list ("argument") and the copy the function may
\* make ("copy") to their contents, and list_new / returned name an object.
MaxListLen == 4

ListItems == {1, 2, 3}

\* list.reverse() the way a wrong implementation would leave it
list_unreversed(l) == l

\* list_new.reverse()
list_reverse(l) == Reverse(l)

\* list_new.pop(index), index counted from 1
list_pop(l, index) == SubSeq(l, 1, index - 1) \o SubSeq(l, index + 1, Len(l))

\* set(list_with_duplicates)
list_to_set(l) == {l[i] : i \in 1..Len(l)}

\* the object list_new names when no copy is ever made
always_the_argument(preserve_original_list) == "argument"

\* list_with_duplicates.copy() if preserve_original_list else list_with_duplicates
list_new_object(preserve_original_list) ==
  IF preserve_original_list THEN "copy" ELSE "argument"

dedup_call(l, first, original, again) ==
  [pc |-> "call", again |-> again, input |-> l,
   preserve_first_encounter |-> first, preserve_original_list |-> original,
   heap |-> [argument |-> l, copy |-> <<>>],
   list_set |-> {}, list_new |-> "argument", index |-> 0, returned |-> "nothing"]

NoReader ==
  /\ byte_stream = <<>>
  /\ batch_arg = 0
  /\ lines_separator = <<>>
  /\ keep_lines_separator = TRUE
  /\ file_text = <<>>
  /\ reader_lines_separator = <<>>
  /\ reader_keep_lines_separator = TRUE
  /\ NoSearch
  /\ batch_size = 0
  /\ remaining_bytes_indicator = <<>>
  /\ position = 0
  /\ batch = <<>>
  /\ segment = <<>>
  /\ lines = <<>>
  /\ first_batch = TRUE
  /\ pc = "start"
  /\ yielded = <<>>
  /\ reads = <<>>
  /\ reader_yielded = <<>>
  /\ line = <<>>
  /\ forward_rest = <<>>
  /\ file_open = FALSE
  /\ result = <<>>
  /\ returned = "not yet"
  /\ raised = ""

reader == <<caller, byte_stream, batch_arg, lines_separator, keep_lines_separator,
            batch_size, remaining_bytes_indicator, position, batch, segment, lines,
            first_batch, pc, yielded, reads, file_text, reader_lines_separator,
            reader_keep_lines_separator, reader_yielded, search_for,
            search_using_regex, search_from_front_to_back, count, file_exists,
            search_pc, line, forward_rest, file_open, result, returned, raised>>

InitDedup ==
  /\ caller = "remove_duplicates_orderly"
  /\ NoReader
  /\ \E l \in SeqsUpTo(ListItems, MaxListLen), first \in BOOLEAN, original \in BOOLEAN :
       dedup = dedup_call(l, first, original, FALSE)
  /\ cleanup = NotCalled
  /\ download = NotCalled
  /\ base64 = NotCalled

\* list_set = set(...); list_new = ... (the copy, or the argument itself)
DedupCall ==
  /\ dedup.pc = "call"
  /\ LET object == list_new_object(dedup.preserve_original_list)
     IN dedup' = [dedup EXCEPT !.pc = "compare",
                               !.list_set = list_to_set(dedup.heap.argument),
                               !.list_new = object,
                               !.heap = [@ EXCEPT ![object] = dedup.heap.argument]]
  /\ UNCHANGED <<reader, cleanup, download, base64>>

\* if len(list_new) == len(list_set): return list_new
DedupNoExtra ==
  /\ dedup.pc = "compare"
  /\ Len(dedup.heap[dedup.list_new]) = Cardinality(dedup.list_set)
  /\ dedup' = [dedup EXCEPT !.pc = "returned", !.returned = dedup.list_new]
  /\ UNCHANGED <<reader, cleanup, download, base64>>

\* if preserve_first_encounter: list_new.reverse(); then the loop starts at
\* the last index
DedupReverse ==
  /\ dedup.pc = "compare"
  /\ Len(dedup.heap[dedup.list_new]) # Cardinality(dedup.list_set)
  /\ dedup' = [dedup EXCEPT
       !.pc = "loop",
       !.index = Len(dedup.heap[dedup.list_new]),
       !.heap = [@ EXCEPT ![dedup.list_new] =
                   IF dedup.preserve_first_encounter THEN list_reverse(@) ELSE @]]
  /\ UNCHANGED <<reader, cleanup, download, base64>>

\* one round of the loop whose item is still in list_set: list_set.remove(item)
DedupKeep ==
  /\ dedup.pc = "loop"
  /\ dedup.index >= 1
  /\ LET item == dedup.heap[dedup.list_new][dedup.index]
     IN /\ item \in dedup.list_set
        /\ dedup' = [dedup EXCEPT !.list_set = @ \ {item}, !.index = @ - 1]
  /\ UNCHANGED <<reader, cleanup, download, base64>>

\* one round of the loop whose item was seen before: list_new.pop(index)
DedupPop ==
  /\ dedup.pc = "loop"
  /\ dedup.index >= 1
  /\ LET item == dedup.heap[dedup.list_new][dedup.index]
     IN /\ item \notin dedup.list_set
        /\ dedup' = [dedup EXCEPT
             !.heap = [@ EXCEPT ![dedup.list_new] = list_pop(@, dedup.index)],
             !.index = @ - 1]
  /\ UNCHANGED <<reader, cleanup, download, base64>>

\* after the loop: if preserve_first_encounter: list_new.reverse(); return list_new
DedupReturn ==
  /\ dedup.pc = "loop"
  /\ dedup.index = 0
  /\ dedup' = [dedup EXCEPT
       !.pc = "returned",
       !.returned = dedup.list_new,
       !.heap = [@ EXCEPT ![dedup.list_new] =
                   IF dedup.preserve_first_encounter THEN list_reverse(@) ELSE @]]
  /\ UNCHANGED <<reader, cleanup, download, base64>>

\* the caller applies the function again, to the list it got back
DedupAgain ==
  /\ dedup.pc = "returned"
  /\ ~dedup.again
  /\ \E first \in BOOLEAN, original \in BOOLEAN :
       dedup' = dedup_call(dedup.heap[dedup.returned], first, original, TRUE)
  /\ UNCHANGED <<reader, cleanup, download, base64>>

DedupNext ==
  \/ DedupCall
  \/ DedupNoExtra
  \/ DedupReverse
  \/ DedupKeep
  \/ DedupPop
  \/ DedupReturn
  \/ DedupAgain

DedupSpec == InitDedup /\ [][DedupNext]_vars

\* the positions of l that the contract keeps: the first occurrence of each
\* element, or the last one
KeptOccurrences(l, first) ==
  {i \in 1..Len(l) :
     IF first THEN \A j \in 1..(i - 1) : l[j] # l[i]
              ELSE \A j \in (i + 1)..Len(l) : l[j] # l[i]}

\* the elements of l at the positions in I, in the order of l
Restricted(l, I) ==
  LET F[i \in 0..Len(l)] ==
        IF i = 0 THEN <<>>
        ELSE IF i \in I THEN Append(F[i - 1], l[i]) ELSE F[i - 1]
  IN F[Len(l)]

DedupReturned == dedup.pc = "returned"

DedupResult == dedup.heap[dedup.returned]

\* C22: the returned list holds every distinct element of the input exactly
\* once, in the input order of the kept occurrences (the first occurrence of
\* each element with preserve_first_encounter, the last one without), and a
\* second application to the result returns it unchanged.
C22_DuplicateFreeInOrder ==
  DedupReturned =>
    /\ \A x \in list_to_set(dedup.input) :
         Cardinality({i \in 1..Len(DedupResult) : DedupResult[i] = x}) = 1
    /\ list_to_set(DedupResult) = list_to_set(dedup.input)
    /\ DedupResult = Restricted(dedup.input,
                        KeptOccurrences(dedup.input, dedup.preserve_first_encounter))
    /\ dedup.again => DedupResult = dedup.input

\* a list whose first and last occurrences differ has been reduced, keeping
\* the first occurrences
C22_Witness ==
  /\ DedupReturned
  /\ dedup.preserve_first_encounter
  /\ dedup.input = <<1, 2, 1, 3>>
  /\ DedupResult = <<1, 2, 3>>

\* C23: with preserve_original_list=True the caller's list is what it was
\* before the call and the result is another list object; with
\* preserve_original_list=False the caller's list is the returned list.
C23_FrameCondition ==
  DedupReturned =>
    IF dedup.preserve_original_list
    THEN /\ dedup.heap.argument = dedup.input
         /\ dedup.returned # "argument"
    ELSE /\ dedup.heap.argument = DedupResult
         /\ DedupResult = Restricted(dedup.input,
                             KeptOccurrences(dedup.input, dedup.preserve_first_encounter))

\* a list with duplicates was reduced in a copy, the caller's list untouched
C23_Witness ==
  /\ DedupReturned
  /\ dedup.preserve_original_list
  /\ dedup.input = <<2, 1, 2>>
  /\ dedup.heap.argument = <<2, 1, 2>>
  /\ DedupResult # dedup.input

\* =====================================================================
\* text_file_cleanup(file, search_for, replace_as, encoding='utf-8',
\* search_using_regex, preserve_original_file, auto_replace_nbsp) of
\* SpiderUtilLib.py.  The frame holds the two files, `file` and
\* file + '.origin', each present or not and with its bytes.
MaxCleanupLines == 2

\* '&nbsp;'
nbsp == <<38, 110, 98, 115, 112, 59>>

CleanupLineContents == {<<97>>, nbsp, <<97>> \o nbsp \o <<97>>, <<255>>}

CleanupFiles ==
  {search_file(contents, terminated) :
     contents \in SeqsUpTo(CleanupLineContents, MaxCleanupLines),
     terminated \in BOOLEAN}

\* 'a', the regular expressions 'a+' and '(' (which does not compile), or none
CleanupPatterns == {<<>>, <<97>>, <<97, 43>>, <<40>>}

CleanupReplacements == {<<>>, <<32>>}

absent == [exists |-> FALSE, bytes |-> <<>>]

present(bytes) == [exists |-> TRUE, bytes |-> bytes]

\* str.replace(old, new) for a non-empty old: every occurrence, left to right
RECURSIVE str_replace(_, _, _)
str_replace(text, old, new) ==
  IF Len(text) < Len(old) \/ old = <<>> THEN text
  ELSE IF startswith(text, old)
       THEN new \o str_replace(SubSeq(text, Len(old) + 1, Len(text)), old, new)
       ELSE <<Head(text)>> \o str_replace(Tail(text), old, new)

\* re.sub(pattern, repl, text) from position pos on, for patterns that match
\* no empty string and a repl without escapes
RECURSIVE re_sub_from(_, _, _, _)
re_sub_from(items, repl, text, pos) ==
  IF pos > Len(text) THEN <<>>
  ELSE LET end == re_match_end(items, text, pos)
       IN IF end > pos
          THEN repl \o re_sub_from(items, repl, text, end)
          ELSE <<text[pos]>> \o re_sub_from(items, repl, text, pos + 1)

re_sub(items, repl, text) == re_sub_from(items, repl, text, 1)

InitCleanup ==
  /\ caller = "text_file_cleanup"
  /\ NoReader
  /\ \E exists \in BOOLEAN, pattern \in CleanupPatterns,
        replacement \in CleanupReplacements, regex \in BOOLEAN,
        preserve \in BOOLEAN, nbsp_too \in BOOLEAN :
       \E bytes \in (IF exists THEN CleanupFiles ELSE {<<>>}) :
         cleanup = [pc |-> "call",
                    file |-> IF exists THEN present(bytes) ELSE absent,
                    origin |-> absent,
                    original |-> bytes,
                    search_for |-> pattern,
                    replace_as |-> replacement,
                    search_using_regex |-> regex,
                    preserve_original_file |-> preserve,
                    auto_replace_nbsp |-> nbsp_too,
                    file_reader |-> <<>>,
                    writes |-> 0,
                    renamed |-> FALSE,
                    returned |-> "nothing"]
  /\ dedup = NotCalled
  /\ download = NotCalled
  /\ base64 = NotCalled

cleanup_frame == <<reader, dedup, download, base64>>

\* except Exception as e: print(e); return False
cleanup_failed == [cleanup EXCEPT !.pc = "returned", !.returned = "False"]

\* if search_for == '' and not auto_replace_nbsp: return True
CleanupNothingToDo ==
  /\ cleanup.pc = "call"
  /\ cleanup.search_for = <<>> /\ ~cleanup.auto_replace_nbsp
  /\ cleanup' = [cleanup EXCEPT !.pc = "returned", !.returned = "True"]
  /\ UNCHANGED cleanup_frame

\* shutil.move(file, file + '.origin'); a missing file raises
CleanupMove ==
  /\ cleanup.pc = "call"
  /\ ~(cleanup.search_for = <<>> /\ ~cleanup.auto_replace_nbsp)
  /\ cleanup' = IF cleanup.file.exists
                THEN [cleanup EXCEPT !.pc = "open", !.origin = cleanup.file,
                                     !.file = absent, !.renamed = TRUE]
                ELSE cleanup_failed
  /\ UNCHANGED cleanup_frame

\* with open(file + '.origin', 'r') as file_reader, open(file, 'w') as
\* file_writer: the second open creates the empty file
CleanupOpen ==
  /\ cleanup.pc = "open"
  /\ cleanup' = [cleanup EXCEPT
       !.pc = "loop",
       !.file = present(<<>>),
       !.file_reader = IF Undecodable(cleanup.origin.bytes) THEN <<>>
                       ELSE text_lines(Decode(cleanup.origin.bytes))]
  /\ UNCHANGED cleanup_frame

\* for line in file_reader: the first read decodes the file and raises on
\* bytes that are not UTF-8
CleanupDecodeError ==
  /\ cleanup.pc = "loop"
  /\ Undecodable(cleanup.origin.bytes)
  /\ cleanup' = cleanup_failed
  /\ UNCHANGED cleanup_frame

\* one round of the loop: line.replace('&nbsp;', ' ') computes a string that
\* is dropped; the line is written only under `if search_for:`
CleanupLine ==
  /\ cleanup.pc = "loop"
  /\ ~Undecodable(cleanup.origin.bytes)
  /\ cleanup.file_reader # <<>>
  /\ LET current == Head(cleanup.file_reader)
         compiled == re_compile(cleanup.search_for)
     IN cleanup' =
          IF cleanup.search_for = <<>>
          THEN [cleanup EXCEPT !.file_reader = Tail(@)]
          ELSE IF ~cleanup.search_using_regex
          THEN [cleanup EXCEPT
                  !.file_reader = Tail(@),
                  !.writes = @ + 1,
                  !.file = present(@.bytes \o Encode(
                             str_replace(current, cleanup.search_for,
                                         cleanup.replace_as)))]
          ELSE IF ~compiled.ok THEN cleanup_failed
          ELSE [cleanup EXCEPT
                  !.file_reader = Tail(@),
                  !.writes = @ + 1,
                  !.file = present(@.bytes \o Encode(
                             re_sub(compiled.items, cleanup.replace_as, current)))]
  /\ UNCHANGED cleanup_frame

\* after the loop: if not preserve_original_file: os.remove(file + '.origin');
\* return True
CleanupFinish ==
  /\ cleanup.pc = "loop"
  /\ ~Undecodable(cleanup.origin.bytes)
  /\ cleanup.file_reader = <<>>
  /\ cleanup' = [cleanup EXCEPT
       !.pc = "returned",
       !.returned = "True",
       !.origin = IF cleanup.preserve_original_file THEN @ ELSE absent]
  /\ UNCHANGED cleanup_frame

CleanupNext ==
  \/ CleanupNothingToDo
  \/ CleanupMove
  \/ CleanupOpen
  \/ CleanupDecodeError
  \/ CleanupLine
  \/ CleanupFinish

CleanupSpec == InitCleanup /\ [][CleanupNext]_vars

\* the lines of the original file
OriginalLines == text_lines(Decode(cleanup.original))

\* what the docstring asks of one line: '&nbsp;' to a space when
\* auto_replace_nbsp, then the substitution of search_for
CleanedLine(l) ==
  LET spaced == IF cleanup.auto_replace_nbsp THEN str_replace(l, nbsp, <<32>>)
                ELSE l
  IN IF cleanup.search_for = <<>> THEN spaced
     ELSE IF cleanup.search_using_regex
          THEN re_sub(re_compile(cleanup.search_for).items, cleanup.replace_as, spaced)
          ELSE str_replace(spaced, cleanup.search_for, cleanup.replace_as)

\* C24: after a successful call with auto_replace_nbsp=True the file holds,
\* line by line, the original with every '&nbsp;' replaced by a space and the
\* search_for / replace_as substitution applied.
C24_NbspReplaced ==
  (/\ cleanup.pc = "returned" /\ cleanup.returned = "True"
   /\ cleanup.auto_replace_nbsp)
    => /\ cleanup.file.exists
       /\ cleanup.file.bytes
            = Encode(Concat([i \in 1..Len(OriginalLines) |->
                               CleanedLine(OriginalLines[i])]))

\* C30: a call that returns True has written one line for every line of the
\* original file, and a call that returns False after the rename leaves the
\* original content under file + '.origin'.
C30_NoLineLost ==
  /\ (cleanup.pc = "returned" /\ cleanup.returned = "True" /\ cleanup.renamed)
       => /\ cleanup.file.exists
          /\ cleanup.writes = Len(OriginalLines)
  /\ (cleanup.pc = "returned" /\ cleanup.returned = "False" /\ cleanup.renamed)
       => cleanup.origin = present(cleanup.original)

\* =====================================================================
\* WebUtils.get_remote_file(url, size_only, path, filename, stream_mode,
\* silent_mode).  The network is an input: what the HEAD and the GET request
\* do.  File names are strings; url_name is
\* file_name_cleanup(url.split('/')[-1]), '' for a url that ends with '/'.
UrlNames == {"", "file.pdf"}

SuppliedNames == {"", "mine.pdf"}

\* what input() may give as a new name
EnteredNames == {"", "other.pdf"}

\* the response of a request: a good status, a bad status
\* (raise_for_status raises), or no response at all (the request raises)
Responses == {"ok", "bad status", "no response"}

\* get_unique_filename(path, extension): the first 'WUDL<count>.<extension>'
\* that does not exist in path
get_unique_filename(directory, extension) ==
  LET candidates == <<"WUDL0000." \o extension, "WUDL0001." \o extension,
                      "WUDL0002." \o extension>>
      free == {i \in 1..Len(candidates) : candidates[i] \notin directory}
  IN candidates[Min(free)]

\* url.split('/')[-1].rsplit('.')[-1]
url_extension(url_name) == IF url_name = "file.pdf" THEN "pdf" ELSE ""

DownloadDirectories ==
  SUBSET {"file.pdf", "mine.pdf", "other.pdf", "WUDL0000.tmp", "WUDL0000.pdf"}

no_file_info ==
  [headers |-> FALSE, status_code |-> "unset", error_message |-> FALSE,
   download_success |-> "unset", file |-> "unset", dir |-> FALSE,
   fullpath |-> "unset", download_length |-> FALSE]

InitDownload ==
  /\ caller = "get_remote_file"
  /\ NoReader
  /\ \E only \in BOOLEAN, name \in SuppliedNames, url_name \in UrlNames,
        silent \in BOOLEAN, stream \in BOOLEAN, head \in Responses,
        get \in Responses, length_sent \in BOOLEAN,
        directory \in DownloadDirectories :
       download = [pc |-> "head",
                   size_only |-> only,
                   supplied |-> name,
                   filename |-> name,
                   url_name |-> url_name,
                   silent_mode |-> silent,
                   stream_mode |-> stream,
                   head |-> head,
                   get |-> get,
                   content_length |-> length_sent,
                   directory |-> directory,
                   before |-> directory,
                   full_path |-> "unset",
                   requested |-> FALSE,
                   file_info |-> no_file_info,
                   raised |-> ""]
  /\ dedup = NotCalled
  /\ cleanup = NotCalled
  /\ base64 = NotCalled

download_frame == <<reader, dedup, cleanup, base64>>

\* lines 119-127: the HEAD request.  A request without a response leaves
\* head_response unbound, and the handler's use of it raises
DownloadHead ==
  /\ download.pc = "head"
  /\ download' =
       IF download.head = "ok"
       THEN [download EXCEPT !.pc = "decide",
               !.file_info = [no_file_info EXCEPT !.headers = TRUE]]
       ELSE IF download.head = "bad status"
       THEN [download EXCEPT !.pc = "decide",
               !.file_info = [no_file_info EXCEPT
                                !.headers = TRUE, !.status_code = "bad",
                                !.error_message = TRUE,
                                !.download_success = "False"]]
       ELSE [download EXCEPT !.pc = "raised", !.raised = "UnboundLocalError"]
  /\ UNCHANGED download_frame

\* line 129 false: size_only, or the HEAD request failed; return file_info
DownloadNotWanted ==
  /\ download.pc = "decide"
  /\ download.size_only \/ download.file_info.download_success = "False"
  /\ download' = [download EXCEPT !.pc = "returned"]
  /\ UNCHANGED download_frame

\* line 132 false: the caller gave a filename.  Everything from the choice of
\* the name to the download is inside `if not filename:`, so the call goes
\* on to `return file_info`
DownloadNameSupplied ==
  /\ download.pc = "decide"
  /\ ~download.size_only /\ download.file_info.download_success # "False"
  /\ download.filename # ""
  /\ download' = [download EXCEPT !.pc = "returned"]
  /\ UNCHANGED download_frame

\* lines 132-135: no filename given; take it from the url, or a unique one
DownloadNameFromUrl ==
  /\ download.pc = "decide"
  /\ ~download.size_only /\ download.file_info.download_success # "False"
  /\ download.filename = ""
  /\ download' = [download EXCEPT
       !.pc = "exists",
       !.filename = IF download.url_name # "" THEN download.url_name
                    ELSE get_unique_filename(download.directory, "tmp")]
  /\ UNCHANGED download_frame

\* lines 138-140: full_path does not exist; leave the loop
DownloadNameFree ==
  /\ download.pc = "exists"
  /\ download.filename \notin download.directory
  /\ download' = [download EXCEPT !.pc = "get", !.full_path = download.filename]
  /\ UNCHANGED download_frame

\* lines 142-143: the file exists and silent_mode: take a unique name
DownloadNameUnique ==
  /\ download.pc = "exists"
  /\ download.filename \in download.directory
  /\ download.silent_mode
  /\ download' = [download EXCEPT
       !.full_path = download.filename,
       !.filename = get_unique_filename(download.directory,
                                        url_extension(download.url_name))]
  /\ UNCHANGED download_frame

\* lines 145-154: the file exists: ask; 'y' overwrites, anything else asks
\* for a new name, '' standing for a unique one
DownloadAsk ==
  /\ download.pc = "exists"
  /\ download.filename \in download.directory
  /\ ~download.silent_mode
  /\ \/ download' = [download EXCEPT !.pc = "get",
                                     !.full_path = download.filename]
     \/ \E entered \in EnteredNames :
          download' = [download EXCEPT
            !.full_path = download.filename,
            !.filename = IF entered # "" THEN entered
                         ELSE get_unique_filename(download.directory,
                                                  url_extension(download.url_name))]
  /\ UNCHANGED download_frame

\* an exception of the try block before dl_status is bound: the handler's
\* `file_info['status_code'] = dl_status` raises
DownloadUnbound ==
  /\ download.pc = "get"
  /\ \/ ~download.silent_mode /\ ~download.content_length
     \/ download.get = "no response"
  /\ download' = [download EXCEPT
       !.pc = "raised", !.raised = "UnboundLocalError",
       !.requested = download.silent_mode \/ download.content_length,
       !.directory = @ \ {download.full_path}]
  /\ UNCHANGED download_frame

\* lines 156-204 otherwise: the GET request and the file
DownloadGet ==
  /\ download.pc = "get"
  /\ download.silent_mode \/ download.content_length
  /\ download.get # "no response"
  /\ download' =
       IF download.get = "ok"
       THEN [download EXCEPT
               !.pc = "returned",
               !.requested = TRUE,
               !.directory = @ \cup {download.full_path},
               !.file_info = [@ EXCEPT
                  !.status_code = "good", !.download_success = "True",
                  !.file = download.filename, !.dir = TRUE,
                  !.fullpath = download.full_path, !.download_length = TRUE]]
       ELSE [download EXCEPT
               !.pc = "returned",
               !.requested = TRUE,
               !.directory = @ \ {download.full_path},
               !.file_info = [@ EXCEPT
                  !.status_code = "bad", !.error_message = TRUE,
                  !.download_success = "False"]]
  /\ UNCHANGED download_frame

DownloadNext ==
  \/ DownloadHead
  \/ DownloadNotWanted
  \/ DownloadNameSupplied
  \/ DownloadNameFromUrl
  \/ DownloadNameFree
  \/ DownloadNameUnique
  \/ DownloadAsk
  \/ DownloadUnbound
  \/ DownloadGet

DownloadSpec == InitDownload /\ [][DownloadNext]_vars

\* C25: a call with size_only=False whose HEAD request succeeded has made the
\* download request whether or not a filename was given, a given filename
\* that was free names the downloaded file, and the returned dictionary has
\* 'download_success': True with 'file', 'dir' and 'fullpath', or False with
\* 'error_message'.
C25_DownloadWithOrWithoutName ==
  (/\ download.pc = "returned" /\ ~download.size_only /\ download.head = "ok")
    => /\ download.requested
       /\ download.file_info.download_success # "unset"
       /\ download.file_info.download_success = "True"
            => /\ download.file_info.file # "unset"
               /\ download.file_info.dir
               /\ download.file_info.fullpath # "unset"
               /\ download.file_info.file \in download.directory
               /\ (download.supplied # "" /\ download.supplied \notin download.before)
                    => download.file_info.file = download.supplied
       /\ download.file_info.download_success = "False"
            => download.file_info.error_message

\* =====================================================================
\* WebUtils.base64_encoder(text, base64_encoding_map=map) followed by
\* base64_decoder(encoded, decode_output_as=bytes, base64_encoding_map=map).
\* Binary strings ('0'/'1' characters) are sequences of 0 and 1; the encoded
\* text is a sequence of code points.
MaxBase64Len == 4

Base64Bytes == {0, 97, 251, 255}

Base64Maps == {"default", "RFC3501", "RFC4648"}

\* BASE64MAP_dict[map]: A-Z, a-z, 0-9, two signs and '='
BASE64MAP(map) ==
  [i \in 1..26 |-> 64 + i] \o [i \in 1..26 |-> 96 + i] \o [i \in 1..10 |-> 47 + i]
    \o (IF map = "default" THEN <<43, 47>>
        ELSE IF map = "RFC3501" THEN <<43, 44>> ELSE <<45, 95>>)
    \o <<61>>

\* bin(n)[2:]: the binary digits of n, '0' for 0
RECURSIVE bin(_)
bin(n) == IF n < 2 THEN <<n>> ELSE Append(bin(n \div 2), n % 2)

\* s.zfill(width)
zfill(s, width) ==
  IF Len(s) >= width THEN s ELSE [i \in 1..(width - Len(s)) |-> 0] \o s

\* int(s, base=2)
RECURSIVE int2(_)
int2(s) == IF s = <<>> THEN 0 ELSE 2 * int2(SubSeq(s, 1, Len(s) - 1)) + s[Len(s)]

\* s[from:to] of Python, from and to counted from 0 and clamped
slice(s, from, to) == SubSeq(s, Min({from, Len(s)}) + 1, Min({to, Len(s)}))

\* BASE64MAP.index(character)
map_index(map, character) ==
  Min({i \in 1..Len(BASE64MAP(map)) : BASE64MAP(map)[i] = character}) - 1

\* lines 250-266 for one piece '00' + block[index:index + 6]
encoded_character(map, piece) ==
  LET character == IF Len(piece) = 6 THEN piece \o <<0, 0>>
                   ELSE IF Len(piece) = 4 THEN piece \o <<0, 0, 0, 0>>
                   ELSE IF Len(piece) = 2 THEN piece \o <<0, 1, 0, 0, 0, 0, 0, 0>>
                   ELSE piece
      characterToAppend == BASE64MAP(map)[int2(character) + 1]
  IN IF characterToAppend = 61 /\ map = "RFC3501" THEN <<>>
     ELSE <<characterToAppend>>

\* lines 247-268
base64_encoder(text, map) ==
  LET text_in_block_of_three ==
        [k \in 1..ceil_division(Len(text), 3) |->
           LET three == slice(text, 3 * (k - 1), 3 * k)
           IN Concat([j \in 1..Len(three) |-> zfill(bin(three[j]), 8)])]
      text_in_base64_block ==
        [k \in 1..Len(text_in_block_of_three) |->
           [q \in 1..4 |->
              <<0, 0>> \o slice(text_in_block_of_three[k], 6 * (q - 1), 6 * q)]]
  IN Concat([k \in 1..Len(text_in_base64_block) |->
               Concat([q \in 1..4 |->
                         encoded_character(map, text_in_base64_block[k][q])])])

\* lines 286-288: while not len(encrypted_text) % 4 == 0: encrypted_text += '='
padded(encrypted_text, map) ==
  IF map = "default" THEN encrypted_text
  ELSE encrypted_text \o [i \in 1..((4 - (Len(encrypted_text) % 4)) % 4) |-> 61]

\* lines 296-297 for one block: the bytes int(block[i:i + 8], 2) for
\* i = 0, 8, 16, under `if int(block[i:i + 8], base=2)`
decoded_text_block(block) ==
  SelectSeq([q \in 1..3 |-> int2(slice(block, 8 * (q - 1), 8 * q))],
            LAMBDA byte : byte # 0)

\* lines 286-301 with decode_output_as=bytes
base64_decoder(encrypted_text, map) ==
  LET text == padded(encrypted_text, map)
      b64blocks ==
        [k \in 1..ceil_division(Len(text), 4) |->
           LET four == slice(text, 4 * (k - 1), 4 * k)
           IN Concat([j \in 1..Len(four) |->
                        LET digits == zfill(bin(map_index(map, four[j])), 6)
                        IN SubSeq(digits, Len(digits) - 5, Len(digits))])]
  IN Concat([k \in 1..Len(b64blocks) |-> decoded_text_block(b64blocks[k])])

InitBase64 ==
  /\ caller = "base64_encoder"
  /\ NoReader
  /\ \E text \in SeqsUpTo(Base64Bytes, MaxBase64Len), map \in Base64Maps :
       base64 = [pc |-> "encode", text |-> text, base64_encoding_map |-> map,
                 str_encoded |-> <<>>, decoded_text |-> <<>>]
  /\ dedup = NotCalled
  /\ cleanup = NotCalled
  /\ download = NotCalled

base64_frame == <<reader, dedup, cleanup, download>>

\* str_encoded = base64_encoder(text, base64_encoding_map=map)
Base64Encode ==
  /\ base64.pc = "encode"
  /\ base64' = [base64 EXCEPT
       !.pc = "decode",
       !.str_encoded = base64_encoder(base64.text, base64.base64_encoding_map)]
  /\ UNCHANGED base64_frame

\* decoded_text = base64_decoder(str_encoded, decode_output_as=bytes,
\*                               base64_encoding_map=map)
Base64Decode ==
  /\ base64.pc = "decode"
  /\ base64' = [base64 EXCEPT
       !.pc = "decoded",
       !.decoded_text = base64_decoder(base64.str_encoded,
                                       base64.base64_encoding_map)]
  /\ UNCHANGED base64_frame

Base64Next ==
  \/ Base64Encode
  \/ Base64Decode

Base64Spec == InitBase64 /\ [][Base64Next]_vars

\* C26: decoding what the encoder made of a byte string, with the same
\* alphabet and decode_output_as=bytes, gives the byte string back, whatever
\* its bytes (0x00 included) and its length.
C26_Base64RoundTrip ==
  base64.pc = "decoded" => base64.decoded_text = base64.text

\* ---------------------------------------------------------------------
\* reverse_binary_stream on its own, called with every window and separator
\* of InitStream
StreamInit == InitStream /\ Init

StreamSpec == StreamInit /\ [][PulledStreamNext]_vars

\* ---------------------------------------------------------------------
\* the byte offsets of the k-th window read
WindowBytes(k) == {i \in 0..(Len(byte_stream) - 1) :
                     reads[k][1] <= i /\ i < reads[k][1] + reads[k][2]}

\* C27: for a non-empty source of length L and window w >= 1 the checkpoints
\* are L - k*w for k = 0 .. ceil(L/w) - 1, decreasing and positive; the
\* window read for checkpoint p is [max(0, p - w), p), so every window is
\* non-empty, the windows are disjoint, only the window at offset 0 may be
\* shorter than w, and when the stream is exhausted every byte of [0, L)
\* has been read exactly once.
C27_WindowsPartition ==
  (Len(byte_stream) > 0 /\ pc \notin {"start", "error"}) =>
    LET L == Len(byte_stream)
        w == batch_size
        cps == checkpoints(L, w)
    IN /\ w >= 1
       /\ Len(cps) = WindowCount(L, w)
       /\ \A k \in 1..Len(cps) :
            /\ cps[k] = L - (k - 1) * w
            /\ cps[k] > 0
            /\ k > 1 => cps[k] < cps[k - 1]
       /\ Len(reads) <= Len(cps)
       /\ \A k \in 1..Len(reads) :
            /\ reads[k][1] = Max({0, cps[k] - w})
            /\ reads[k][1] + reads[k][2] = cps[k]
            /\ reads[k][2] > 0
            /\ reads[k][2] < w => reads[k][1] = 0
            /\ \A j \in 1..(k - 1) : WindowBytes(j) \cap WindowBytes(k) = {}
       /\ Done => \A i \in 0..(L - 1) :
                    Cardinality({k \in 1..Len(reads) : i \in WindowBytes(k)}) = 1

\* a source of four bytes read in windows of three: [1, 4) and the shorter
\* window [0, 1)
C27_Witness ==
  /\ Done
  /\ caller = "reverse_binary_stream"
  /\ Len(byte_stream) = 4
  /\ batch_size = 3
  /\ reads = <<<<1, 3>>, <<0, 1>>>>

\* ---------------------------------------------------------------------
\* the bytes in front of every window read so far
UnreadPrefix ==
  SubSeq(byte_stream, 1,
         IF reads = <<>> THEN Len(byte_stream) ELSE reads[Len(reads)][1])

\* the bytes read and not yet yielded, in source order: the batch while it
\* is being read and split, then the carried segment and the lines of the
\* current window that wait to be yielded (lines holds them in yield order)
Held ==
  IF pc \in {"start", "done"} THEN <<>>
  ELSE IF pc = "read_batch" THEN segment
  ELSE IF pc \in {"prepend", "split"} THEN batch \o segment
  ELSE segment \o Concat(Reverse(lines))

\* C28: with keep_lines_separator=True, whatever the separator (the implicit
\* set, or an explicit one of one or two bytes) and the window, at every
\* point of a run the unread prefix, the carried segment, the lines of the
\* current window not yet yielded and the yielded elements in reverse make up
\* the source, and at exhaustion the yielded elements in reverse are the
\* source.
C28_ByteConservation ==
  (keep_lines_separator /\ pc # "error") =>
    /\ UnreadPrefix \o Held \o Concat(Reverse(yielded)) = byte_stream
    /\ Done => Concat(Reverse(yielded)) = byte_stream

\* a two-byte explicit separator that straddles a window edge: the source
\* 'a\r\na' read in windows of two is given back whole
C28_Witness ==
  /\ Done
  /\ caller = "reverse_binary_stream"
  /\ keep_lines_separator
  /\ lines_separator = <<CR, LF>>
  /\ byte_stream = <<97, CR, LF, 97>>
  /\ batch_size = 2
  /\ Len(reads) = 2
  /\ Concat(Reverse(yielded)) = byte_stream

\* ---------------------------------------------------------------------
\* the lines of the file that contain the literal search_for
LiteralMatches ==
  {i \in 1..Len(ForwardLines) : str_find(ForwardLines[i], search_for) # -1}

\* C29: for a non-empty literal pattern and count=0, Text_File_Search_All
\* returns as many records searching backward as searching forward, one for
\* every line of the file that contains the pattern (None in both directions
\* when there is none), also for patterns and lines that end with whitespace.
C29_DirectionIndependence ==
  (/\ caller = "Text_File_Search_All" /\ UnboundedSearchDone
   /\ ~search_using_regex)
    => /\ Len(result) = Cardinality(LiteralMatches)
       /\ (returned = "None") = (LiteralMatches = {})

====
